---------------------------- MODULE Spec2Model ----------------------------
(***************************************************************************)
(* A model of the GRIB2 reader of grib-rs (src/src/parser.rs):             *)
(*   - get_submessages, the submessage resolver, one step per iter.next(); *)
(*   - scan, the message scanner, one step per loop iteration;             *)
(*   - Grib2FileReader: new, then list_submessages;                        *)
(* and of the JPEG 2000 decoder (src/src/decoders/jpeg2000/mod.rs):        *)
(*   - Jpeg2000CodeStreamDecoder::decode and decode_jp2, one step per      *)
(*     check, read or codec call.                                          *)
(* Indices into a descriptor sequence are 0-based, as in the code; a       *)
(* reference &sects[i] is modelled by the index i.                         *)
(***************************************************************************)
EXTENDS Integers, Sequences, FiniteSets, TLC

VARIABLES
    sects,      \* get_submessages: the descriptors of the slice the iterator has yielded so far
    len,        \* get_submessages: sects.len() of the whole slice
    layout,     \* how the descriptors of the slice were built: "sect_list" or "scan"
    rs,         \* get_submessages: the resolver's locals and its position
    sects2,     \* a second slice with the same section numbers and other field values
    rs2,        \* the resolver's locals on the second slice
    sc,         \* scan: its locals, its position and the bytes it has read from f
    overflow_checks, \* the build: TRUE when usize overflow panics, FALSE when it wraps
    f,          \* scan: the byte source f, what its last read_exact calls delivered
    dec         \* Jpeg2000CodeStreamDecoder::decode: its arguments, locals and position

vars == <<sects, len, layout, rs, sects2, rs2, sc, overflow_checks, f, dec>>

---------------------------------------------------------------------------
(* Bounds of the model. *)

\* longest descriptor slice handed to get_submessages
MaxLen == 14

\* longest pair of slices handed to the two resolver runs that are compared
MaxTwinLen == 10

\* most sections 1..7 scan reads from one message
MaxSects == 2

\* largest total message length an envelope declares
MaxWhole == 47

\* most messages a stream holds after the one scan reads
MaxFollowing == 1

\* largest num_points of a section 5, largest width and height of an image
MaxPoints == 4

---------------------------------------------------------------------------
(* Program constants. *)

SECT0_IS_SIZE == 16

SECT_HEADER_SIZE == 5

SECT8_ES_SIZE == 4

\* Option::None of a reference (an index is >= 0)
None == -1

\* the values of SectionInfo.num the model draws: u8 values 1..8 that the
\* resolver's match arms name, and 0 and 9 for the catch-all arm
SectNums == 0 .. 9

\* the length of the fixed prefix unpack_sect<n>_body reads (its buf)
PrefixLen(num) ==
    CASE num = 1 -> 16
      [] num = 2 -> 0
      [] num = 3 -> 9
      [] num = 4 -> 4
      [] num = 5 -> 6
      [] num = 6 -> 1
      [] num = 7 -> 0

\* usize: TLC's integers stop short of 2^64, so the model keeps usize
\* arithmetic modulo a smaller power of two that is still far above every
\* length and size it draws (a wrapped value is far away from them, as on a
\* 64-bit target)
UsizeModulus == 2 ^ 16

\* isize::MAX, the largest capacity vec! accepts
IsizeMax == UsizeModulus \div 2 - 1

---------------------------------------------------------------------------
(* SectionInfo values. *)

\* Some(SectionBody::Section<num>) as read_body returns it
SectionBody(num) ==
    CASE num = 1 -> "Section1"
      [] num = 2 -> "Section2"
      [] num = 3 -> "Section3"
      [] num = 4 -> "Section4"
      [] num = 5 -> "Section5"
      [] num = 6 -> "Section6"
      [] num = 7 -> "Section7"

SectionInfo(num, offset, size, body) ==
    [num |-> num, offset |-> offset, size |-> size, body |-> body]

\* tests::sect_list: a descriptor that carries a number and nothing else
sect_list(num) == SectionInfo(num, 0, 0, "None")

\* 0-based indexing of a slice
At(s, i) == s[i + 1]

Nums(s) == [k \in 1 .. Len(s) |-> s[k].num]

\* the offset scan gives the descriptor that follows the descriptors of s
NextOffset(s) ==
    IF s = <<>> THEN SECT0_IS_SIZE ELSE s[Len(s)].offset + s[Len(s)].size

\* a descriptor as scan builds it: sections 1..7 with a body and the smallest
\* size their body parser accepts, section 8 with size 4 and no body
ScanBuilt(num, s) ==
    IF num = 8
    THEN SectionInfo(8, NextOffset(s), SECT8_ES_SIZE, "None")
    ELSE SectionInfo(num, NextOffset(s), SECT_HEADER_SIZE + PrefixLen(num),
                     SectionBody(num))

\* the descriptors the slice may hold after the descriptors of s
NextSectionInfos(lay, s, n) ==
    IF lay = "sect_list"
    THEN {sect_list(num) : num \in SectNums}
    ELSE IF Len(s) = n - 1
         THEN {ScanBuilt(8, s)}
         ELSE {ScanBuilt(num, s) : num \in 1 .. 7}

\* the same section number, every other field different
Altered(sect) ==
    SectionInfo(sect.num, sect.offset + 1, sect.size + 1,
                IF sect.body = "None" THEN "Section2" ELSE "None")

---------------------------------------------------------------------------
(* get_submessages *)

SubMessage(s2, s3, s4, s5, s6, s7) ==
    [section2 |-> s2, section3 |-> s3, section4 |-> s4,
     section5 |-> s5, section6 |-> s6, section7 |-> s7]

\* what iter.next() returns: Some((i, sect)) or None
SomeItem(i, sect) == [some |-> TRUE, i |-> i, sect |-> sect]

NoItem == [some |-> FALSE, i |-> None, sect |-> sect_list(0)]

Pending == [kind |-> "Pending", idx |-> None]

Ok == [kind |-> "Ok", idx |-> None]

GRIB2IterationSuddenlyFinished ==
    [kind |-> "GRIB2IterationSuddenlyFinished", idx |-> None]

NoGridDefinition(i) == [kind |-> "NoGridDefinition", idx |-> i]

GRIB2WrongIteration(i) == [kind |-> "GRIB2WrongIteration", idx |-> i]

\* the locals before the first statement
InitResolver ==
    [pc            |-> "check1",
     iter          |-> 0,
     starts        |-> <<>>,
     sect2_default |-> None,
     sect3_default |-> None,
     sub           |-> SubMessage(None, None, None, None, None, None),
     expect        |-> 1,
     result        |-> Pending]

Return(st, r) == [st EXCEPT !.pc = "done", !.result = r]

\* iter.next() moves the iterator when it yields an item
Advance(st, item) == IF item.some THEN [st EXCEPT !.iter = @ + 1] ELSE st

\* a faulty check!: it reports the 1-based position of the descriptor
check_one_based(item, num) ==
    IF ~item.some THEN GRIB2IterationSuddenlyFinished
    ELSE IF item.sect.num # num THEN GRIB2WrongIteration(item.i + 1)
    ELSE Pending

\* a faulty check!: it compares the whole descriptor, not its number
check_whole_descriptor(item, num) ==
    IF ~item.some THEN GRIB2IterationSuddenlyFinished
    ELSE IF item.sect # sect_list(num) THEN GRIB2WrongIteration(item.i)
    ELSE Pending

\* the check! macro: the error it returns, Pending when the item passes
check(item, num) ==
    IF ~item.some THEN GRIB2IterationSuddenlyFinished
    ELSE IF item.sect.num # num THEN GRIB2WrongIteration(item.i)
    ELSE Pending

\* a faulty update_default!: it forgets the section-3 default
update_default_sect2_only(st, submessage) ==
    [st EXCEPT !.sect2_default = submessage.section2]

\* the update_default! macro
update_default(st, submessage) ==
    [st EXCEPT !.sect2_default = submessage.section2,
               !.sect3_default = submessage.section3]

\* a faulty SubMessage literal: sect5 and sect6 change places
WithSectionSwapped(sub, num, i) ==
    CASE num = 3 -> [sub EXCEPT !.section3 = i]
      [] num = 4 -> [sub EXCEPT !.section4 = i]
      [] num = 5 -> [sub EXCEPT !.section6 = i]
      [] num = 6 -> [sub EXCEPT !.section5 = i]
      [] num = 7 -> [sub EXCEPT !.section7 = i]

\* the field of the SubMessage literal that a checked section fills
WithSection(sub, num, i) ==
    CASE num = 3 -> [sub EXCEPT !.section3 = i]
      [] num = 4 -> [sub EXCEPT !.section4 = i]
      [] num = 5 -> [sub EXCEPT !.section5 = i]
      [] num = 6 -> [sub EXCEPT !.section6 = i]
      [] num = 7 -> [sub EXCEPT !.section7 = i]

\* a faulty push: the submessage goes to the front of starts
PushStartFront(st, sub) ==
    [update_default(st, sub) EXCEPT !.starts = <<sub>> \o @, !.pc = "loop"]

\* starts.push(start) at the end of a loop iteration
PushStart(st, sub) ==
    [update_default(st, sub) EXCEPT !.starts = Append(@, sub), !.pc = "loop"]

\* check!(1) before the loop
Check1Step(st, item) ==
    IF check(item, 1) # Pending
    THEN Return(st, check(item, 1))
    ELSE [st EXCEPT !.pc = "loop"]

\* check!(3) .. check!(7) inside a match arm; the arm ends after check!(7)
CheckStep(st, item) ==
    IF check(item, st.expect) # Pending
    THEN Return(st, check(item, st.expect))
    ELSE LET sub == WithSection(st.sub, st.expect, item.i)
         IN  IF st.expect = 7
             THEN PushStart(st, sub)
             ELSE [st EXCEPT !.sub = sub, !.expect = @ + 1, !.pc = "check"]

\* the arm of a section 2
Sect2Arm(st, item) ==
    [st EXCEPT !.pc = "check", !.expect = 3,
               !.sub = SubMessage(item.i, None, None, None, None, None)]

\* a faulty arm of a section 3: it does not inherit the section-2 default
Sect3ArmNoDefault(st, item) ==
    [st EXCEPT !.pc = "check", !.expect = 4,
               !.sub = SubMessage(None, item.i, None, None, None, None)]

\* the arm of a section 3
Sect3Arm(st, item) ==
    [st EXCEPT !.pc = "check", !.expect = 4,
               !.sub = SubMessage(st.sect2_default, item.i, None, None, None, None)]

\* a faulty arm of a section 4: the two defaults change places
Sect4ArmSwapped(st, item) ==
    IF st.sect3_default = None
    THEN Return(st, NoGridDefinition(item.i))
    ELSE [st EXCEPT !.pc = "check", !.expect = 5,
                    !.sub = SubMessage(st.sect3_default, st.sect2_default,
                                       item.i, None, None, None)]

\* a faulty arm of a section 4: it does not ask for a grid definition
Sect4ArmNoGridCheck(st, item) ==
    [st EXCEPT !.pc = "check", !.expect = 5,
               !.sub = SubMessage(st.sect2_default, st.sect3_default,
                                  item.i, None, None, None)]

\* the arm of a section 4
Sect4Arm(st, item) ==
    IF st.sect3_default = None
    THEN Return(st, NoGridDefinition(item.i))
    ELSE [st EXCEPT !.pc = "check", !.expect = 5,
                    !.sub = SubMessage(st.sect2_default, st.sect3_default,
                                       item.i, None, None, None)]

\* a faulty arm of a section 8: it asks for the last descriptor first
Sect8ArmLastFirst(st, item, n) ==
    IF item.i < n - 1
    THEN Return(st, GRIB2WrongIteration(item.i))
    ELSE IF st.sect3_default = None
         THEN Return(st, NoGridDefinition(item.i))
         ELSE Return(st, Ok)

\* a faulty arm of a section 8: it does not ask for the last descriptor
Sect8ArmAnywhere(st, item, n) ==
    IF st.sect3_default = None
    THEN Return(st, NoGridDefinition(item.i))
    ELSE Return(st, Ok)

\* the arm of a section 8; n is sects.len()
Sect8Arm(st, item, n) ==
    IF st.sect3_default = None
    THEN Return(st, NoGridDefinition(item.i))
    ELSE IF item.i < n - 1
         THEN Return(st, GRIB2WrongIteration(item.i))
         ELSE Return(st, Ok)

\* a faulty loop: the end of the slice ends the message as a section 8 does
LoopStepOkAtEnd(st, item, n) ==
    IF ~item.some THEN Return(st, Ok)
    ELSE CASE item.sect.num = 2 -> Sect2Arm(st, item)
           [] item.sect.num = 3 -> Sect3Arm(st, item)
           [] item.sect.num = 4 -> Sect4Arm(st, item)
           [] item.sect.num = 8 -> Sect8Arm(st, item, n)
           [] OTHER -> Return(st, GRIB2WrongIteration(item.i))

\* let sect = iter.next(); match sect { ... }
LoopStep(st, item, n) ==
    IF ~item.some THEN Return(st, GRIB2IterationSuddenlyFinished)
    ELSE CASE item.sect.num = 2 -> Sect2Arm(st, item)
           [] item.sect.num = 3 -> Sect3Arm(st, item)
           [] item.sect.num = 4 -> Sect4Arm(st, item)
           [] item.sect.num = 8 -> Sect8Arm(st, item, n)
           [] OTHER -> Return(st, GRIB2WrongIteration(item.i))

\* one iter.next() of get_submessages and what the code does with the item
ResolverStep(st, item, n) ==
    CASE st.pc = "check1" -> Check1Step(Advance(st, item), item)
      [] st.pc = "loop"   -> LoopStep(Advance(st, item), item, n)
      [] st.pc = "check"  -> CheckStep(Advance(st, item), item)

---------------------------------------------------------------------------
(* scan and the unpack_* functions it calls.  A read_exact either delivers *)
(* all the bytes asked for or fails (the source ends or fails).            *)

ReadError == [kind |-> "ReadError", idx |-> None]

NotGRIB == [kind |-> "NotGRIB", idx |-> None]

GRIBVersionMismatch(version) == [kind |-> "GRIBVersionMismatch", idx |-> version]

UnknownSectionNumber(num) == [kind |-> "UnknownSectionNumber", idx |-> num]

EndSectionMismatch == [kind |-> "EndSectionMismatch", idx |-> None]

\* the thread panics: the function does not return
Panic == [kind |-> "Panic", idx |-> None]

\* a - b on usize overflows
Underflows(a, b) == a < b

\* a - b on usize where overflow wraps
WrappingSub(a, b) == (a - b) % UsizeModulus

\* what an unpack_* call comes to: the error (Pending when there is none),
\* the value returned and the bytes taken from the reader
Outcome(result, value, bytes) == [result |-> result, value |-> value, bytes |-> bytes]

\* the total sizes a section header may declare: less than a header, a bare
\* header, a header and one octet, a header and the longest fixed prefix
SectSizes ==
    {SECT_HEADER_SIZE - 1, SECT_HEADER_SIZE, SECT_HEADER_SIZE + 1,
     SECT_HEADER_SIZE + PrefixLen(1)}

\* a faulty unpack_sect0: it looks at the version before the magic
unpack_sect0_version_first(read_ok, magic, version, fsize) ==
    IF ~read_ok THEN Outcome(ReadError, 0, 0)
    ELSE IF version # 2 THEN Outcome(GRIBVersionMismatch(version), 0, SECT0_IS_SIZE)
    ELSE IF magic # "GRIB" THEN Outcome(NotGRIB, 0, SECT0_IS_SIZE)
    ELSE Outcome(Pending, fsize, SECT0_IS_SIZE)

\* unpack_sect0 on the 16 octets read_exact delivers, if it does
unpack_sect0(read_ok, magic, version, fsize) ==
    IF ~read_ok THEN Outcome(ReadError, 0, 0)
    ELSE IF magic # "GRIB" THEN Outcome(NotGRIB, 0, SECT0_IS_SIZE)
    ELSE IF version # 2 THEN Outcome(GRIBVersionMismatch(version), 0, SECT0_IS_SIZE)
    ELSE Outcome(Pending, fsize, SECT0_IS_SIZE)

\* a faulty unpack_sect8: it does not compare the 4 octets with '7777'
unpack_sect8_unchecked(read_ok, magic) ==
    IF ~read_ok THEN Outcome(ReadError, 0, 0)
    ELSE Outcome(Pending, 0, SECT8_ES_SIZE)

\* unpack_sect8 on the 4 octets read_exact delivers, if it does
unpack_sect8(read_ok, magic) ==
    IF ~read_ok THEN Outcome(ReadError, 0, 0)
    ELSE IF magic # "7777" THEN Outcome(EndSectionMismatch, 0, SECT8_ES_SIZE)
    ELSE Outcome(Pending, 0, SECT8_ES_SIZE)

\* unpack_sect_header on the 5 octets read_exact delivers, if it does
unpack_sect_header(read_ok, sect_size, sect_num) ==
    IF ~read_ok THEN Outcome(ReadError, 0, 0)
    ELSE Outcome(Pending, SectionInfo(sect_num, 0, sect_size, "None"), SECT_HEADER_SIZE)

\* a faulty unpack_sect<num>_body: the rest of the body is left in the reader
unpack_sect_body_no_skip(num, body_size, checks, fails) ==
    LET prefix == PrefixLen(num)
    IN  IF prefix > 0 /\ fails = 1 THEN Outcome(ReadError, 0, 0)
        ELSE IF Underflows(body_size, prefix) /\ checks THEN Outcome(Panic, 0, prefix)
        ELSE Outcome(Pending, SectionBody(num), prefix)

\* a faulty unpack_sect<num>_body: the result of the read_exact that drops
\* the rest of the body is ignored
unpack_sect_body_tail_unchecked(num, body_size, checks, fails) ==
    LET prefix    == PrefixLen(num)
        len_extra == IF Underflows(body_size, prefix)
                     THEN WrappingSub(body_size, prefix)
                     ELSE body_size - prefix
    IN  IF prefix > 0 /\ fails = 1 THEN Outcome(ReadError, 0, 0)
        ELSE IF Underflows(body_size, prefix) /\ checks THEN Outcome(Panic, 0, prefix)
        ELSE IF len_extra = 0 THEN Outcome(Pending, SectionBody(num), prefix)
        ELSE IF len_extra > IsizeMax THEN Outcome(Panic, 0, prefix)
        ELSE Outcome(Pending, SectionBody(num), prefix + len_extra)

\* unpack_sect<num>_body for num in 1..7: read the fixed prefix, then read and
\* drop the other body_size - prefix octets.  fails is the read_exact call of
\* the body that fails (0: none does).
unpack_sect_body(num, body_size, checks, fails) ==
    LET prefix    == PrefixLen(num)
        extra_no  == IF prefix > 0 THEN 2 ELSE 1
        len_extra == IF Underflows(body_size, prefix)
                     THEN WrappingSub(body_size, prefix)
                     ELSE body_size - prefix
    IN  IF prefix > 0 /\ fails = 1 THEN Outcome(ReadError, 0, 0)
        ELSE IF Underflows(body_size, prefix) /\ checks THEN Outcome(Panic, 0, prefix)
        ELSE IF len_extra = 0 THEN Outcome(Pending, SectionBody(num), prefix)
        ELSE IF len_extra > IsizeMax THEN Outcome(Panic, 0, prefix)
        ELSE IF fails = extra_no THEN Outcome(ReadError, 0, prefix)
        ELSE Outcome(Pending, SectionBody(num), prefix + len_extra)

\* SectionInfo::read_body
read_body(sect, checks, fails) ==
    LET body_size == IF Underflows(sect.size, SECT_HEADER_SIZE)
                     THEN WrappingSub(sect.size, SECT_HEADER_SIZE)
                     ELSE sect.size - SECT_HEADER_SIZE
    IN  IF Underflows(sect.size, SECT_HEADER_SIZE) /\ checks THEN Outcome(Panic, 0, 0)
        ELSE IF sect.num \in 1 .. 7
             THEN unpack_sect_body(sect.num, body_size, checks, fails)
             ELSE Outcome(UnknownSectionNumber(sect.num), 0, 0)

\* scan's locals before its first statement
InitScan ==
    [pc         |-> "sect0",
     whole_size |-> 0,
     rest_size  |-> 0,
     sects      |-> <<>>,
     consumed   |-> 0,
     result     |-> Pending]

ScanReturn(st, r, bytes) ==
    [st EXCEPT !.pc = "done", !.result = r, !.consumed = @ + bytes]

\* a faulty offset: counted from the end of section 0
SectOffsetAfterSect0(whole_size, rest_size) ==
    whole_size - rest_size - SECT0_IS_SIZE

\* offset: whole_size - rest_size
SectOffset(whole_size, rest_size) ==
    IF Underflows(whole_size, rest_size)
    THEN WrappingSub(whole_size, rest_size)
    ELSE whole_size - rest_size

\* a faulty start of scan: section 0 is not taken off the message length
ScanSect0StepWholeBudget(st, o, checks) ==
    IF o.result # Pending THEN ScanReturn(st, o.result, o.bytes)
    ELSE [st EXCEPT !.pc = "loop",
                    !.whole_size = o.value,
                    !.rest_size = o.value,
                    !.consumed = @ + o.bytes]

\* let whole_size = unpack_sect0(&mut f)?;
\* let mut rest_size = whole_size - SECT0_IS_SIZE;
ScanSect0Step(st, o, checks) ==
    IF o.result # Pending THEN ScanReturn(st, o.result, o.bytes)
    ELSE IF Underflows(o.value, SECT0_IS_SIZE) /\ checks
         THEN ScanReturn(st, Panic, o.bytes)
         ELSE [st EXCEPT !.pc = "loop",
                         !.whole_size = o.value,
                         !.rest_size = WrappingSub(o.value, SECT0_IS_SIZE),
                         !.consumed = @ + o.bytes]

\* the loop iteration with rest_size == SECT8_ES_SIZE
ScanSect8Step(st, o, checks) ==
    IF o.result # Pending THEN ScanReturn(st, o.result, o.bytes)
    ELSE IF Underflows(st.whole_size, st.rest_size) /\ checks
         THEN ScanReturn(st, Panic, o.bytes)
         ELSE [ScanReturn(st, Ok, o.bytes) EXCEPT
                  !.sects = Append(@, SectionInfo(8,
                                SectOffset(st.whole_size, st.rest_size),
                                SECT8_ES_SIZE, "None"))]

\* the loop iteration that reads a section: h is what unpack_sect_header
\* comes to, fails the read_exact call of the body that fails
ScanSectionStep(st, h, checks, fails) ==
    IF h.result # Pending THEN ScanReturn(st, h.result, h.bytes)
    ELSE IF Underflows(st.whole_size, st.rest_size) /\ checks
         THEN ScanReturn(st, Panic, h.bytes)
         ELSE LET sect_info == [h.value EXCEPT
                                   !.offset = SectOffset(st.whole_size, st.rest_size)]
                  b == read_body(sect_info, checks, fails)
              IN  IF b.result # Pending
                  THEN ScanReturn(st, b.result, h.bytes + b.bytes)
                  ELSE IF Underflows(st.rest_size, sect_info.size) /\ checks
                       THEN ScanReturn(st, Panic, h.bytes + b.bytes)
                       ELSE [st EXCEPT
                               !.rest_size = WrappingSub(@, sect_info.size),
                               !.sects = Append(@, [sect_info EXCEPT !.body = b.value]),
                               !.consumed = @ + h.bytes + b.bytes]

---------------------------------------------------------------------------
(* The byte source f of scan. *)

\* what the read_exact calls of scan's last step delivered: what names the
\* unpack_* call ("sect0", "section", "sect8"); read_ok, magic and version
\* belong to its first read_exact, sect_size and sect_num to a section
\* header, fails to the body's read_exact calls; following counts the
\* messages the stream holds after the '7777' that was read
Delivered(what, read_ok, magic, version, sect_size, sect_num, fails, following) ==
    [what      |-> what,
     read_ok   |-> read_ok,
     magic     |-> magic,
     version   |-> version,
     sect_size |-> sect_size,
     sect_num  |-> sect_num,
     fails     |-> fails,
     following |-> following]

\* the first read_exact of an unpack_* call fails: it delivers nothing
Failed(what) == Delivered(what, FALSE, "", 0, 0, 0, 0, 0)

\* f before scan's first read
InitReader == Delivered("none", TRUE, "", 0, 0, 0, 0, 0)

---------------------------------------------------------------------------
(* Jpeg2000CodeStreamDecoder::decode and decode_jp2                        *)
(* (src/src/decoders/jpeg2000/mod.rs).                                     *)

\* the variants of enum Jpeg2000CodeStreamDecodeError, by position
NotSupported == 0

DecoderSetupError == 1

MainHeaderReadError == 2

BodyReadError == 3

Jpeg2000LengthMismatch == 4

Jpeg2000Variants ==
    {NotSupported, DecoderSetupError, MainHeaderReadError, BodyReadError,
     Jpeg2000LengthMismatch}

\* GribError::InternalDataError
InternalDataError == [kind |-> "InternalDataError", idx |-> None]

\* GribError::DecodeError(DecodeError::BitMapIndicatorUnsupported)
BitMapIndicatorUnsupported == [kind |-> "BitMapIndicatorUnsupported", idx |-> None]

\* DecodeError::SimplePackingDecodeError(OriginalFieldValueTypeNotSupported)
OriginalFieldValueTypeNotSupported ==
    [kind |-> "SimplePackingDecodeError::OriginalFieldValueTypeNotSupported",
     idx  |-> None]

\* DecodeError::SimplePackingDecodeError(LengthMismatch)
LengthMismatch == [kind |-> "SimplePackingDecodeError::LengthMismatch", idx |-> None]

\* DecodeError::Jpeg2000CodeStreamDecodeError(e)
Jpeg2000CodeStreamDecodeError(e) ==
    [kind |-> "Jpeg2000CodeStreamDecodeError", idx |-> e]

\* decode before its first statement.  Its arguments: the body variant of
\* sect5 and its num_points, the body variant of sect6 and its
\* bitmap_indicator.  value_type is octet 15 of the section-5 payload in the
\* file behind reader.  stream, codec and image are the codec handles:
\* "none" before they are acquired, then "held", then "released".
\* jp2_unpacked is the number of samples decode_jp2 returned and decoded is
\* decoded.len(), None before there is one.  failed is the read or codec
\* call that failed, numcomps the number of components of the image, and
\* copied_while the state of the image handle when its samples were copied.
\* exp_field and dig_field are the 16-bit fields at offsets 10 and 12 of the
\* section-5 payload, exp and dig what decode makes of them.
DecodeArgs(body5, num_points, body6, bitmap_indicator, value_type) ==
    [pc               |-> "match",
     result           |-> Pending,
     sect5_body       |-> body5,
     num_points       |-> num_points,
     sect6_body       |-> body6,
     bitmap_indicator |-> bitmap_indicator,
     value_type       |-> value_type,
     stream           |-> "none",
     codec            |-> "none",
     image            |-> "none",
     jp2_unpacked     |-> None,
     decoded          |-> None,
     failed           |-> "none",
     numcomps         |-> None,
     copied_while     |-> "none",
     exp_field        |-> None,
     dig_field        |-> None,
     exp              |-> 0,
     dig              |-> 0]

InitDecode == DecodeArgs("None", 0, "None", 0, 0)

\* return Err(..) or Ok(..) from decode
DecodeReturn(st, r) == [st EXCEPT !.pc = "done", !.result = r]

\* the call at st.pc succeeds or fails, as the reader or the codec decides
Stage(st, ok) == [st EXCEPT !.failed = IF ok THEN @ ELSE st.pc]

\* Drop::drop of a handle: the codec releases what it refers to
Drop(handle) ==
    CASE handle = "held"     -> "released"
      [] handle = "released" -> "released twice"
      [] OTHER               -> handle

\* a local goes out of scope: it is dropped unless it was moved out of
\* (into drop) or never bound
ScopeExit(handle) == IF handle = "held" THEN Drop(handle) ELSE handle

\* return from decode_jp2: its locals stream, codec and image go out of scope
Jp2Return(st, r) ==
    [DecodeReturn(st, r) EXCEPT !.stream = ScopeExit(@), !.codec = ScopeExit(@),
                               !.image = ScopeExit(@)]

\* a faulty match: a sect5 without a Section5 body passes
MatchBodiesSect6Only(st) ==
    IF st.sect6_body = "Section6"
    THEN [st EXCEPT !.pc = "bitmap"]
    ELSE DecodeReturn(st, InternalDataError)

\* match (sect5.body.as_ref(), sect6.body.as_ref())
MatchBodies(st) ==
    IF st.sect5_body = "Section5" /\ st.sect6_body = "Section6"
    THEN [st EXCEPT !.pc = "bitmap"]
    ELSE DecodeReturn(st, InternalDataError)

\* if sect6_body.bitmap_indicator != 255
BitmapCheck(st) ==
    IF st.bitmap_indicator # 255
    THEN DecodeReturn(st, BitMapIndicatorUnsupported)
    ELSE [st EXCEPT !.pc = "sect5_data"]

\* reader.read_sect_payload_as_slice(sect)?: the payload or the reader's error
read_sect_payload_as_slice(st, read_ok, to) ==
    IF read_ok THEN [st EXCEPT !.pc = to] ELSE DecodeReturn(st, ReadError)

\* GribInt::as_grib_int of a u16: the high bit is the sign, the other 15
\* bits the magnitude
as_grib_int(field) ==
    IF field >= 2 ^ 15 THEN 0 - (field - 2 ^ 15) ELSE field

\* a faulty read of the scale factors: the fields are taken as i16
ReadScaleFactorsNative(st, exp_field, dig_field) ==
    [st EXCEPT !.exp_field = exp_field,
               !.dig_field = dig_field,
               !.exp = IF exp_field >= 2 ^ 15 THEN exp_field - 2 ^ 16 ELSE exp_field,
               !.dig = IF dig_field >= 2 ^ 15 THEN dig_field - 2 ^ 16 ELSE dig_field]

\* let exp = read_as!(u16, sect5_data, 10).as_grib_int();
\* let dig = read_as!(u16, sect5_data, 12).as_grib_int();
ReadScaleFactors(st, exp_field, dig_field) ==
    [st EXCEPT !.exp_field = exp_field,
               !.dig_field = dig_field,
               !.exp = as_grib_int(exp_field),
               !.dig = as_grib_int(dig_field)]

\* if value_type != 0
ValueTypeCheck(st) ==
    IF st.value_type # 0
    THEN DecodeReturn(st, OriginalFieldValueTypeNotSupported)
    ELSE [st EXCEPT !.pc = "sect7_data"]

\* Stream::from_bytes(&sect7_data).map_err(..)?
StreamFromBytes(st, ok, e) ==
    IF ok
    THEN [st EXCEPT !.stream = "held", !.pc = "codec"]
    ELSE DecodeReturn(st, Jpeg2000CodeStreamDecodeError(e))

\* the errors Codec::j2k() returns when the codec cannot be created
CodecJ2kErrors == {DecoderSetupError}

\* the 16-bit fields the model draws for the two scale factors
ScaleFields == {0, 1, 32767, 32768, 32769, 49151, 49152, 49153, 65535}

\* decode_jp2: let codec = Codec::j2k()?;
CodecJ2k(st, ok, e) ==
    IF ok
    THEN [st EXCEPT !.codec = "held", !.pc = "setup"]
    ELSE Jp2Return(st, Jpeg2000CodeStreamDecodeError(e))

\* a faulty opj_setup_decoder test: it reports the error of the header read
SetupDecoderAsHeader(st, ok) ==
    IF ok
    THEN [st EXCEPT !.pc = "header"]
    ELSE Jp2Return(st, Jpeg2000CodeStreamDecodeError(MainHeaderReadError))

\* decode_jp2: opj_setup_decoder
SetupDecoder(st, ok) ==
    IF ok
    THEN [st EXCEPT !.pc = "header"]
    ELSE Jp2Return(st, Jpeg2000CodeStreamDecodeError(DecoderSetupError))

\* decode_jp2: Image::new() and opj_read_header
ReadHeader(st, ok) ==
    IF ok
    THEN [st EXCEPT !.image = "held", !.pc = "body"]
    ELSE Jp2Return([st EXCEPT !.image = "held"],
                   Jpeg2000CodeStreamDecodeError(MainHeaderReadError))

\* a faulty decode_jp2: the image is dropped with the codec and the stream
DecodeBodyDropsImage(st, ok) ==
    IF ok
    THEN [st EXCEPT !.codec = Drop(@), !.stream = Drop(@), !.image = Drop(@),
                    !.pc = "components"]
    ELSE Jp2Return(st, Jpeg2000CodeStreamDecodeError(BodyReadError))

\* decode_jp2: opj_decode, then drop(codec); drop(stream);
DecodeBody(st, ok) ==
    IF ok
    THEN [st EXCEPT !.codec = Drop(@), !.stream = Drop(@), !.pc = "components"]
    ELSE Jp2Return(st, Jpeg2000CodeStreamDecodeError(BodyReadError))

\* a faulty decode_jp2: it takes the first component of an image that has
\* several
ComponentsFirstOnly(st, ncomp, width, height) ==
    IF ncomp >= 1
    THEN [st EXCEPT !.numcomps = ncomp,
                    !.jp2_unpacked = width * height,
                    !.copied_while = st.image,
                    !.pc = "samples"]
    ELSE Jp2Return([st EXCEPT !.numcomps = ncomp],
                   Jpeg2000CodeStreamDecodeError(NotSupported))

\* decode_jp2: if let [comp_gray] = image.components(): the samples of the
\* one component, width * height of them, copied with to_vec()
Components(st, ncomp, width, height) ==
    IF ncomp = 1
    THEN [st EXCEPT !.numcomps = ncomp,
                    !.jp2_unpacked = width * height,
                    !.copied_while = st.image,
                    !.pc = "samples"]
    ELSE Jp2Return([st EXCEPT !.numcomps = ncomp],
                   Jpeg2000CodeStreamDecodeError(NotSupported))

\* decode_jp2: Ok(vec.into_iter()); the locals go out of scope
ReturnSamples(st) ==
    [st EXCEPT !.stream = ScopeExit(@), !.codec = ScopeExit(@),
               !.image = ScopeExit(@), !.pc = "unpack"]

\* SimplePackingDecodeIterator::new(jp2_unpacked, ..).collect(): one value
\* for each sample
SimplePackingDecode(st) ==
    [st EXCEPT !.decoded = st.jp2_unpacked, !.pc = "length"]

\* a faulty end of decode: the length is not compared with num_points
LengthCheckNone(st) == DecodeReturn(st, Ok)

\* if decoded.len() != sect5_body.num_points() as usize
LengthCheck(st) ==
    IF st.decoded # st.num_points
    THEN DecodeReturn(st, LengthMismatch)
    ELSE DecodeReturn(st, Ok)

---------------------------------------------------------------------------
(* The resolver on one slice.  The slice has len descriptors; the model    *)
(* fixes a descriptor when the iterator yields it, so every slice of len   *)
(* descriptors is covered.                                                 *)

Init ==
    /\ sects = <<>>
    /\ len \in 0 .. MaxLen
    /\ layout \in {"sect_list", "scan"}
    /\ rs = InitResolver
    /\ sects2 = <<>>
    /\ rs2 = InitResolver
    /\ sc = InitScan
    /\ overflow_checks = FALSE
    /\ f = InitReader
    /\ dec = InitDecode

\* iter.next() yields the descriptor sect
Yield(sect) ==
    /\ rs.iter < len
    /\ sect \in NextSectionInfos(layout, sects, len)
    /\ sects' = Append(sects, sect)
    /\ rs' = ResolverStep(rs, SomeItem(rs.iter, sect), len)
    /\ UNCHANGED <<len, layout, sects2, rs2, sc, overflow_checks, f, dec>>

\* check!(1) on the first descriptor
Check1 ==
    /\ rs.pc = "check1"
    /\ \E sect \in NextSectionInfos(layout, sects, len) : Yield(sect)

\* the loop meets a section 2
LoopSect2 ==
    /\ rs.pc = "loop"
    /\ \E sect \in NextSectionInfos(layout, sects, len) :
          sect.num = 2 /\ Yield(sect)

\* the loop meets a section 3
LoopSect3 ==
    /\ rs.pc = "loop"
    /\ \E sect \in NextSectionInfos(layout, sects, len) :
          sect.num = 3 /\ Yield(sect)

\* the loop meets a section 4
LoopSect4 ==
    /\ rs.pc = "loop"
    /\ \E sect \in NextSectionInfos(layout, sects, len) :
          sect.num = 4 /\ Yield(sect)

\* the loop meets a section 8
LoopSect8 ==
    /\ rs.pc = "loop"
    /\ \E sect \in NextSectionInfos(layout, sects, len) :
          sect.num = 8 /\ Yield(sect)

\* the loop meets any other section
LoopOther ==
    /\ rs.pc = "loop"
    /\ \E sect \in NextSectionInfos(layout, sects, len) :
          sect.num \notin {2, 3, 4, 8} /\ Yield(sect)

\* check!(3) .. check!(7) on the next descriptor
CheckFollow ==
    /\ rs.pc = "check"
    /\ \E sect \in NextSectionInfos(layout, sects, len) : Yield(sect)

\* iter.next() returns None
IterEnd ==
    /\ rs.pc # "done"
    /\ rs.iter = len
    /\ rs' = ResolverStep(rs, NoItem, len)
    /\ UNCHANGED <<sects, len, layout, sects2, rs2, sc, overflow_checks, f, dec>>

Next ==
    \/ Check1
    \/ LoopSect2
    \/ LoopSect3
    \/ LoopSect4
    \/ LoopSect8
    \/ LoopOther
    \/ CheckFollow
    \/ IterEnd

Spec == Init /\ [][Next]_vars

---------------------------------------------------------------------------
(* The resolver on the descriptors of the sample file of tests::read_normal, *)
(* and on every prefix of them.                                            *)

\* the sections that tests::read_normal expects scan to find
read_normal ==
    << SectionInfo(1, 16, 21, SectionBody(1)),
       SectionInfo(3, 37, 72, SectionBody(3)),
       SectionInfo(4, 109, 34, SectionBody(4)),
       SectionInfo(5, 143, 23, SectionBody(5)),
       SectionInfo(6, 166, 6, SectionBody(6)),
       SectionInfo(7, 172, 1391, SectionBody(7)),
       SectionInfo(4, 1563, 34, SectionBody(4)),
       SectionInfo(5, 1597, 23, SectionBody(5)),
       SectionInfo(6, 1620, 6, SectionBody(6)),
       SectionInfo(7, 1626, 1399, SectionBody(7)),
       SectionInfo(4, 3025, 34, SectionBody(4)),
       SectionInfo(5, 3059, 23, SectionBody(5)),
       SectionInfo(6, 3082, 6, SectionBody(6)),
       SectionInfo(7, 3088, 1404, SectionBody(7)),
       SectionInfo(4, 4492, 34, SectionBody(4)),
       SectionInfo(5, 4526, 23, SectionBody(5)),
       SectionInfo(6, 4549, 6, SectionBody(6)),
       SectionInfo(7, 4555, 1395, SectionBody(7)),
       SectionInfo(4, 5950, 34, SectionBody(4)),
       SectionInfo(5, 5984, 23, SectionBody(5)),
       SectionInfo(6, 6007, 6, SectionBody(6)),
       SectionInfo(7, 6013, 1395, SectionBody(7)),
       SectionInfo(4, 7408, 34, SectionBody(4)),
       SectionInfo(5, 7442, 23, SectionBody(5)),
       SectionInfo(6, 7465, 6, SectionBody(6)),
       SectionInfo(7, 7471, 1397, SectionBody(7)),
       SectionInfo(4, 8868, 34, SectionBody(4)),
       SectionInfo(5, 8902, 23, SectionBody(5)),
       SectionInfo(6, 8925, 6, SectionBody(6)),
       SectionInfo(7, 8931, 1386, SectionBody(7)),
       SectionInfo(8, 10317, 4, "None") >>

SampleInit ==
    /\ sects = <<>>
    /\ len \in 0 .. Len(read_normal)
    /\ layout = "scan"
    /\ rs = InitResolver
    /\ sects2 = <<>>
    /\ rs2 = InitResolver
    /\ sc = InitScan
    /\ overflow_checks = FALSE
    /\ f = InitReader
    /\ dec = InitDecode

\* iter.next() yields the next descriptor of the sample
SampleYield ==
    /\ rs.pc # "done"
    /\ rs.iter < len
    /\ sects' = Append(sects, At(read_normal, rs.iter))
    /\ rs' = ResolverStep(rs, SomeItem(rs.iter, At(read_normal, rs.iter)), len)
    /\ UNCHANGED <<len, layout, sects2, rs2, sc, overflow_checks, f, dec>>

SampleNext ==
    \/ SampleYield
    \/ IterEnd

SpecSample == SampleInit /\ [][SampleNext]_vars

---------------------------------------------------------------------------
(* The resolver on two slices that agree on the section numbers.           *)

\* descriptors with the number of sect and other values in the other fields
SameNum(sect) ==
    {[sect EXCEPT !.offset = Altered(sect).offset, !.size = Altered(sect).size],
     [sect EXCEPT !.body = Altered(sect).body]}

TwinInit ==
    /\ sects = <<>>
    /\ len \in 0 .. MaxTwinLen
    /\ layout \in {"sect_list", "scan"}
    /\ rs = InitResolver
    /\ sects2 = <<>>
    /\ rs2 = InitResolver
    /\ sc = InitScan
    /\ overflow_checks = FALSE
    /\ f = InitReader
    /\ dec = InitDecode

StepIfRunning(st, item, n) ==
    IF st.pc = "done" THEN st ELSE ResolverStep(st, item, n)

\* both iterators yield a descriptor
TwinYield ==
    /\ rs.pc # "done" \/ rs2.pc # "done"
    /\ Len(sects) < len
    /\ \E sect \in NextSectionInfos(layout, sects, len) :
         \E other \in SameNum(sect) :
            /\ sects' = Append(sects, sect)
            /\ sects2' = Append(sects2, other)
            /\ rs' = StepIfRunning(rs, SomeItem(Len(sects), sect), len)
            /\ rs2' = StepIfRunning(rs2, SomeItem(Len(sects2), other), len)
    /\ UNCHANGED <<len, layout, sc, overflow_checks, f, dec>>

\* both iterators return None
TwinEnd ==
    /\ rs.pc # "done" \/ rs2.pc # "done"
    /\ Len(sects) = len
    /\ rs' = StepIfRunning(rs, NoItem, len)
    /\ rs2' = StepIfRunning(rs2, NoItem, len)
    /\ UNCHANGED <<sects, sects2, len, layout, sc, overflow_checks, f, dec>>

TwinNext ==
    \/ TwinYield
    \/ TwinEnd

SpecTwin == TwinInit /\ [][TwinNext]_vars

---------------------------------------------------------------------------
(* scan on one message. *)

ScanInit ==
    /\ sects = <<>>
    /\ len = 0
    /\ layout = "scan"
    /\ rs = InitResolver
    /\ sects2 = <<>>
    /\ rs2 = InitResolver
    /\ sc = InitScan
    /\ overflow_checks \in BOOLEAN
    /\ f = InitReader
    /\ dec = InitDecode

\* unpack_sect0 and the first rest_size
ScanSect0 ==
    /\ sc.pc = "sect0"
    /\ \E read_ok \in BOOLEAN, magic \in {"GRIB", "GRIP"}, version \in {1, 2},
          fsize \in 0 .. MaxWhole :
          /\ sc' = ScanSect0Step(sc, unpack_sect0(read_ok, magic, version, fsize),
                                 overflow_checks)
          /\ f' = IF read_ok
                  THEN Delivered("sect0", TRUE, magic, version, 0, 0, 0, 0)
                  ELSE Failed("sect0")
    /\ UNCHANGED <<sects, len, layout, rs, sects2, rs2, overflow_checks, dec>>

\* rest_size == SECT8_ES_SIZE: the end section
ScanSect8 ==
    /\ sc.pc = "loop"
    /\ sc.rest_size = SECT8_ES_SIZE
    /\ \E read_ok \in BOOLEAN, magic \in {"7777", "7778"},
          following \in 0 .. MaxFollowing :
          /\ sc' = ScanSect8Step(sc, unpack_sect8(read_ok, magic), overflow_checks)
          /\ f' = IF read_ok
                  THEN Delivered("sect8", TRUE, magic, 0, 0, 0, 0,
                                 IF magic = "7777" THEN following ELSE 0)
                  ELSE Failed("sect8")
    /\ UNCHANGED <<sects, len, layout, rs, sects2, rs2, overflow_checks, dec>>

\* any other rest_size: a section header and its body
ScanSection ==
    /\ sc.pc = "loop"
    /\ sc.rest_size # SECT8_ES_SIZE
    /\ Len(sc.sects) < MaxSects
    /\ \E read_ok \in BOOLEAN, sect_size \in SectSizes, sect_num \in SectNums,
          fails \in 0 .. 2 :
          /\ sc' = ScanSectionStep(sc, unpack_sect_header(read_ok, sect_size, sect_num),
                                   overflow_checks, fails)
          /\ f' = IF read_ok
                  THEN Delivered("section", TRUE, "", 0, sect_size, sect_num, fails, 0)
                  ELSE Failed("section")
    /\ UNCHANGED <<sects, len, layout, rs, sects2, rs2, overflow_checks, dec>>

ScanNext ==
    \/ ScanSect0
    \/ ScanSect8
    \/ ScanSection

SpecScan == ScanInit /\ [][ScanNext]_vars

---------------------------------------------------------------------------
(* Grib2FileReader: new on a byte source, then list_submessages on the     *)
(* reader that new built.                                                  *)

\* GribReader::new after scan(&mut f)? returned Ok(sects):
\* Ok(Self { reader: f, sections: sects }); len is self.sections.len()
New ==
    /\ sc.pc = "done"
    /\ sc.result = Ok
    /\ len = 0
    /\ len' = Len(sc.sects)
    /\ UNCHANGED <<sects, layout, rs, sects2, rs2, sc, overflow_checks, f, dec>>

\* list_submessages: one iter.next() of get_submessages(&self.sections)
ListSubmessages ==
    /\ len > 0
    /\ rs.pc # "done"
    /\ LET item == IF rs.iter < len
                   THEN SomeItem(rs.iter, At(sc.sects, rs.iter))
                   ELSE NoItem
       IN  /\ rs' = ResolverStep(rs, item, len)
           /\ sects' = IF item.some THEN Append(sects, item.sect) ELSE sects
    /\ UNCHANGED <<len, layout, sects2, rs2, sc, overflow_checks, f, dec>>

ReaderNext ==
    \/ ScanSect0
    \/ ScanSect8
    \/ ScanSection
    \/ New
    \/ ListSubmessages

SpecReader == ScanInit /\ [][ReaderNext]_vars

---------------------------------------------------------------------------
(* Jpeg2000CodeStreamDecoder::decode on one submessage. *)

DecodeInit ==
    /\ sects = <<>>
    /\ len = 0
    /\ layout = "scan"
    /\ rs = InitResolver
    /\ sects2 = <<>>
    /\ rs2 = InitResolver
    /\ sc = InitScan
    /\ overflow_checks = FALSE
    /\ f = InitReader
    /\ \E body5 \in {"None", "Section4", "Section5"}, body6 \in {"None", "Section6"},
          num_points \in 0 .. MaxPoints, bitmap_indicator \in {0, 255},
          value_type \in {0, 1} :
          dec = DecodeArgs(body5, IF body5 = "Section5" THEN num_points ELSE 0,
                           body6, IF body6 = "Section6" THEN bitmap_indicator ELSE 0,
                           value_type)

DecodeMatch ==
    /\ dec.pc = "match"
    /\ dec' = MatchBodies(dec)
    /\ UNCHANGED <<sects, len, layout, rs, sects2, rs2, sc, overflow_checks, f>>

DecodeBitmap ==
    /\ dec.pc = "bitmap"
    /\ dec' = BitmapCheck(dec)
    /\ UNCHANGED <<sects, len, layout, rs, sects2, rs2, sc, overflow_checks, f>>

\* let sect5_data = reader.read_sect_payload_as_slice(sect5)?;
DecodeSect5Data ==
    /\ dec.pc = "sect5_data"
    /\ \E read_ok \in BOOLEAN, exp_field \in ScaleFields, dig_field \in ScaleFields :
          LET st == read_sect_payload_as_slice(Stage(dec, read_ok), read_ok,
                                               "value_type")
          IN  dec' = IF read_ok THEN ReadScaleFactors(st, exp_field, dig_field)
                     ELSE st
    /\ UNCHANGED <<sects, len, layout, rs, sects2, rs2, sc, overflow_checks, f>>

DecodeValueType ==
    /\ dec.pc = "value_type"
    /\ dec' = ValueTypeCheck(dec)
    /\ UNCHANGED <<sects, len, layout, rs, sects2, rs2, sc, overflow_checks, f>>

\* let sect7_data = reader.read_sect_payload_as_slice(sect7)?;
DecodeSect7Data ==
    /\ dec.pc = "sect7_data"
    /\ \E read_ok \in BOOLEAN :
          dec' = read_sect_payload_as_slice(Stage(dec, read_ok), read_ok, "stream")
    /\ UNCHANGED <<sects, len, layout, rs, sects2, rs2, sc, overflow_checks, f>>

DecodeStream ==
    /\ dec.pc = "stream"
    /\ \E ok \in BOOLEAN, e \in Jpeg2000Variants :
          dec' = StreamFromBytes(Stage(dec, ok), ok, e)
    /\ UNCHANGED <<sects, len, layout, rs, sects2, rs2, sc, overflow_checks, f>>

Jp2Codec ==
    /\ dec.pc = "codec"
    /\ \E ok \in BOOLEAN, e \in CodecJ2kErrors : dec' = CodecJ2k(Stage(dec, ok), ok, e)
    /\ UNCHANGED <<sects, len, layout, rs, sects2, rs2, sc, overflow_checks, f>>

Jp2Setup ==
    /\ dec.pc = "setup"
    /\ \E ok \in BOOLEAN : dec' = SetupDecoder(Stage(dec, ok), ok)
    /\ UNCHANGED <<sects, len, layout, rs, sects2, rs2, sc, overflow_checks, f>>

Jp2Header ==
    /\ dec.pc = "header"
    /\ \E ok \in BOOLEAN : dec' = ReadHeader(Stage(dec, ok), ok)
    /\ UNCHANGED <<sects, len, layout, rs, sects2, rs2, sc, overflow_checks, f>>

Jp2Body ==
    /\ dec.pc = "body"
    /\ \E ok \in BOOLEAN : dec' = DecodeBody(Stage(dec, ok), ok)
    /\ UNCHANGED <<sects, len, layout, rs, sects2, rs2, sc, overflow_checks, f>>

Jp2Components ==
    /\ dec.pc = "components"
    /\ \E ncomp \in 0 .. 2, width \in 0 .. MaxPoints, height \in 0 .. MaxPoints :
          dec' = Components(dec, ncomp, width, height)
    /\ UNCHANGED <<sects, len, layout, rs, sects2, rs2, sc, overflow_checks, f>>

Jp2Samples ==
    /\ dec.pc = "samples"
    /\ dec' = ReturnSamples(dec)
    /\ UNCHANGED <<sects, len, layout, rs, sects2, rs2, sc, overflow_checks, f>>

DecodeUnpack ==
    /\ dec.pc = "unpack"
    /\ dec' = SimplePackingDecode(dec)
    /\ UNCHANGED <<sects, len, layout, rs, sects2, rs2, sc, overflow_checks, f>>

DecodeLength ==
    /\ dec.pc = "length"
    /\ dec' = LengthCheck(dec)
    /\ UNCHANGED <<sects, len, layout, rs, sects2, rs2, sc, overflow_checks, f>>

DecodeNext ==
    \/ DecodeMatch
    \/ DecodeBitmap
    \/ DecodeSect5Data
    \/ DecodeValueType
    \/ DecodeSect7Data
    \/ DecodeStream
    \/ Jp2Codec
    \/ Jp2Setup
    \/ Jp2Header
    \/ Jp2Body
    \/ Jp2Components
    \/ Jp2Samples
    \/ DecodeUnpack
    \/ DecodeLength

SpecDecode == DecodeInit /\ [][DecodeNext]_vars

---------------------------------------------------------------------------
(* What the claims speak of, read off the slice alone (0-based indices).   *)

NumAt(s, i) == At(s, i).num

\* the descriptors of s from index i on carry the numbers ns
NumsFrom(s, i, ns) ==
    /\ i >= 0
    /\ Len(s) >= i + Len(ns)
    /\ \A k \in 1 .. Len(ns) : NumAt(s, i + k - 1) = ns[k]

\* index i is a group start: it follows section 1 or the section 7 of a body
GroupStart(s, i) ==
    /\ i >= 1
    /\ i < Len(s)
    /\ IF i = 1 THEN NumAt(s, 0) = 1 ELSE NumAt(s, i - 1) = 7

\* the index of the last descriptor numbered num before index i, or None
MostRecent(s, num, i) ==
    LET earlier == {j \in 0 .. i - 1 : j < Len(s) /\ NumAt(s, j) = num}
    IN  IF earlier = {} THEN None
        ELSE CHOOSE j \in earlier : \A k \in earlier : k <= j

\* the step takes descriptor number i from the iterator
Takes(i) == rs.iter = i /\ rs'.iter = i + 1

Body == <<4, 5, 6, 7>>

\* body+ in at most n numbers
RECURSIVE BodyPlus(_)
BodyPlus(n) ==
    IF n < Len(Body) THEN {}
    ELSE {Body} \cup {Body \o b : b \in BodyPlus(n - Len(Body))}

\* group := S2? S3 body+ in at most n numbers
Group(n) ==
    {<<3>> \o b : b \in BodyPlus(n - 1)} \cup {<<2, 3>> \o b : b \in BodyPlus(n - 2)}

\* group+ in at most n numbers
RECURSIVE GroupPlus(_)
GroupPlus(n) ==
    IF n < 1 + Len(Body) THEN {}
    ELSE Group(n) \cup
         UNION {{g \o h : h \in GroupPlus(n - Len(g))} : g \in Group(n)}

\* message := S1 group+ S8 in at most n numbers
Message(n) == {<<1>> \o g \o <<8>> : g \in GroupPlus(n - 2)}

\* C1 is checked for slices of up to MaxLen descriptors; the sentences are
\* listed one longer than the slices so that a longer slice bound is covered
Sentences == Message(MaxLen + 1)

\* a slice of len descriptors of which sects are known may be the sentence s
MayBe(s) == Len(s) = len /\ SubSeq(s, 1, Len(sects)) = Nums(sects)

---------------------------------------------------------------------------
(* C1: get_submessages returns Ok exactly when the section numbers of the  *)
(* slice form a sentence of message := S1 group+ S8, group := S2? S3       *)
(* body+, body := S4 S5 S6 S7: when it returns Ok it has read the whole    *)
(* slice and the numbers are a sentence, and when it returns an error no   *)
(* sentence agrees with the slice's length and the descriptors read.       *)
C1_OkIffSentence ==
    rs.pc = "done" =>
        /\ rs.result = Ok => (Len(sects) = len /\ Nums(sects) \in Sentences)
        /\ rs.result # Ok => \A s \in Sentences : ~MayBe(s)

C1_Witness ==
    /\ rs.pc = "done"
    /\ rs.result = Ok
    /\ Nums(sects) = <<1, 3, 4, 5, 6, 7, 2, 3, 4, 5, 6, 7, 8>>

(* C2: when the step takes the section 7 at index i+5 of descriptors       *)
(* numbered 2,3,4,5,6,7 from a group start i on, it emits one submessage   *)
(* whose sections 2..7 are the descriptors i..i+5, and both defaults       *)
(* become that section 2 and that section 3.                               *)
C2_Step ==
    LET i == rs.iter - 5
    IN  (Takes(i + 5) /\ GroupStart(sects', i)
            /\ NumsFrom(sects', i, <<2, 3, 4, 5, 6, 7>>))
        => /\ rs'.starts =
                Append(rs.starts, SubMessage(i, i + 1, i + 2, i + 3, i + 4, i + 5))
           /\ rs'.sect2_default = i
           /\ rs'.sect3_default = i + 1

C2_Sect2Group == [][C2_Step]_vars

C2_Witness ==
    /\ rs.pc = "loop"
    /\ Nums(sects) = <<1, 2, 3, 4, 5, 6, 7, 2, 3, 4, 5, 6, 7>>
    /\ rs.starts = <<SubMessage(1, 2, 3, 4, 5, 6), SubMessage(7, 8, 9, 10, 11, 12)>>

(* C3: when the step takes the section 7 at index i+4 of descriptors       *)
(* numbered 3,4,5,6,7 from a group start i on, it emits one submessage     *)
(* whose sections 3..7 are the descriptors i..i+4 and whose section 2 is   *)
(* the last section 2 before i (absent if there is none); the section-3    *)
(* default becomes i and the section-2 default does not change.            *)
C3_Step ==
    LET i == rs.iter - 4
    IN  (Takes(i + 4) /\ GroupStart(sects', i)
            /\ NumsFrom(sects', i, <<3, 4, 5, 6, 7>>))
        => /\ rs'.starts =
                Append(rs.starts,
                       SubMessage(MostRecent(sects', 2, i), i, i + 1, i + 2, i + 3, i + 4))
           /\ rs'.sect3_default = i
           /\ rs'.sect2_default = rs.sect2_default

C3_Sect3Group == [][C3_Step]_vars

C3_Witness ==
    /\ rs.pc = "loop"
    /\ Nums(sects) = <<1, 2, 3, 4, 5, 6, 7, 3, 4, 5, 6, 7>>
    /\ rs.starts = <<SubMessage(1, 2, 3, 4, 5, 6), SubMessage(1, 7, 8, 9, 10, 11)>>

(* C4: when the step takes the section 7 at index i+3 of descriptors       *)
(* numbered 4,5,6,7 from a group start i on, and a section 3 stands before *)
(* i, it emits one submessage whose sections 4..7 are the descriptors      *)
(* i..i+3, whose section 3 is the last section 3 before i and whose        *)
(* section 2 is the last section 2 before i (absent if there is none);     *)
(* neither default changes.                                                *)
C4_Step ==
    LET i == rs.iter - 3
    IN  (Takes(i + 3) /\ GroupStart(sects', i)
            /\ NumsFrom(sects', i, <<4, 5, 6, 7>>)
            /\ MostRecent(sects', 3, i) # None)
        => /\ rs'.starts =
                Append(rs.starts,
                       SubMessage(MostRecent(sects', 2, i), MostRecent(sects', 3, i),
                                  i, i + 1, i + 2, i + 3))
           /\ rs'.sect2_default = rs.sect2_default
           /\ rs'.sect3_default = rs.sect3_default

C4_Sect4Group == [][C4_Step]_vars

C4_Witness ==
    /\ rs.pc = "loop"
    /\ Nums(sects) = <<1, 2, 3, 4, 5, 6, 7, 4, 5, 6, 7>>
    /\ rs.starts = <<SubMessage(1, 2, 3, 4, 5, 6), SubMessage(1, 2, 7, 8, 9, 10)>>

(* C5: once the resolver has taken a section 4 or a section 8 at a group   *)
(* start i with no section 3 before it, it has returned                    *)
(* NoGridDefinition(i), an error and so no submessages.                    *)
C5_NoGrid ==
    LET i == rs.iter - 1
    IN  (GroupStart(sects, i) /\ NumAt(sects, i) \in {4, 8}
            /\ MostRecent(sects, 3, i) = None)
        => (rs.pc = "done" /\ rs.result = NoGridDefinition(i))

C5_Witness ==
    /\ rs.pc = "done"
    /\ Nums(sects) = <<1, 4>>
    /\ len = 6
    /\ rs.result = NoGridDefinition(1)

\* the last descriptor taken, i, does not carry a number the resolver
\* expects there (the descriptors before it were accepted)
Offending(s, i) ==
    \/ i = 0 /\ Len(s) > 0 /\ NumAt(s, 0) # 1
    \/ i >= 1 /\ i < Len(s) /\ NumAt(s, i - 1) \in 2 .. 6
              /\ NumAt(s, i) # NumAt(s, i - 1) + 1
    \/ GroupStart(s, i) /\ NumAt(s, i) \notin {2, 3, 4, 8}

(* C6: once the resolver has taken a descriptor i that is not section 1 at *)
(* index 0, or does not carry the number that follows its predecessor's    *)
(* inside a group, or stands at a group start with a number other than     *)
(* 2, 3, 4 or 8, it has returned GRIB2WrongIteration(i).                   *)
C6_WrongIteration ==
    LET i == rs.iter - 1
    IN  Offending(sects, i)
        => (rs.pc = "done" /\ rs.result = GRIB2WrongIteration(i))

C6_Witness ==
    /\ rs.pc = "done"
    /\ Nums(sects) = <<1, 3, 4, 5, 6, 7, 4, 6>>
    /\ rs.result = GRIB2WrongIteration(7)

\* descriptor i carries a number the grammar allows after the ones before it
\* other than the terminating 8
Accepted(s, i) ==
    IF i = 0 THEN NumAt(s, 0) = 1
    ELSE IF GroupStart(s, i)
         THEN \/ NumAt(s, i) \in {2, 3}
              \/ NumAt(s, i) = 4 /\ MostRecent(s, 3, i) # None
         ELSE NumAt(s, i - 1) \in 2 .. 6 /\ NumAt(s, i) = NumAt(s, i - 1) + 1

(* C7: when the slice ends before a terminating section 8 (it is empty,    *)
(* ends after section 1, in the middle of a group or after a whole group)  *)
(* and none of its descriptors is offending, the resolver returns          *)
(* GRIB2IterationSuddenlyFinished.                                         *)
C7_EndedUnexpectedly ==
    (rs.pc = "done" /\ Len(sects) = len
        /\ \A i \in 0 .. len - 1 : Accepted(sects, i))
    => rs.result = GRIB2IterationSuddenlyFinished

C7_Witness ==
    /\ rs.pc = "done"
    /\ len = 9
    /\ Nums(sects) = <<1, 2, 3, 4, 5, 6, 7, 4, 5>>
    /\ rs.result = GRIB2IterationSuddenlyFinished

\* the indices a submessage refers to, in the order 2?,3,4,5,6,7
Refs(sub) ==
    (IF sub.section2 = None THEN <<>> ELSE <<sub.section2>>)
        \o <<sub.section3, sub.section4, sub.section5, sub.section6, sub.section7>>

(* C8: in every submessage the resolver has produced, sections 3..7 are    *)
(* present and refer to descriptors numbered 3..7, section 2 is absent or  *)
(* refers to a descriptor numbered 2, and the descriptors referred to      *)
(* stand at strictly increasing indices in the order 2?,3,4,5,6,7; their   *)
(* offsets increase too when the offsets are the ones scan assigns.        *)
C8_SubMessageShape ==
    \A k \in 1 .. Len(rs.starts) :
        LET sub == rs.starts[k]
            refs == Refs(sub)
        IN  /\ \A r \in 1 .. Len(refs) : refs[r] \in 0 .. Len(sects) - 1
            /\ sub.section2 # None => NumAt(sects, sub.section2) = 2
            /\ NumAt(sects, sub.section3) = 3
            /\ NumAt(sects, sub.section4) = 4
            /\ NumAt(sects, sub.section5) = 5
            /\ NumAt(sects, sub.section6) = 6
            /\ NumAt(sects, sub.section7) = 7
            /\ \A r \in 1 .. Len(refs) - 1 : refs[r] < refs[r + 1]
            /\ layout = "scan" =>
                 \A r \in 1 .. Len(refs) - 1 :
                    At(sects, refs[r]).offset < At(sects, refs[r + 1]).offset

C8_Witness ==
    /\ layout = "scan"
    /\ rs.pc = "done"
    /\ rs.result = Ok
    /\ rs.starts = <<SubMessage(1, 2, 3, 4, 5, 6), SubMessage(1, 7, 8, 9, 10, 11)>>

(* C9: two slices that agree on the section numbers position by position   *)
(* and differ in offsets, sizes and bodies get the same verdict: the same  *)
(* error, or the same submessages as indices into the slice.               *)
C9_NumbersOnly ==
    (Nums(sects2) = Nums(sects) /\ (rs.pc = "done" \/ rs2.pc = "done"))
    => /\ rs2.pc = rs.pc
       /\ rs2.result = rs.result
       /\ rs2.starts = rs.starts

C9_Witness ==
    /\ rs.pc = "done"
    /\ rs2.pc = "done"
    /\ rs.result = Ok
    /\ Len(rs2.starts) = 1
    /\ \A k \in 1 .. Len(sects) :
          sects2[k].num = sects[k].num /\ sects2[k] # sects[k]

(* C10: in the descriptors a successful scan returns, the first has offset *)
(* 16, each later one has the offset of the one before it plus that one's  *)
(* size, and the last is the section 8 at the declared message length      *)
(* minus 4.                                                                *)
C10_Offsets ==
    (sc.pc = "done" /\ sc.result = Ok)
    => LET s == sc.sects
       IN  /\ Len(s) >= 1
           /\ s[1].offset = SECT0_IS_SIZE
           /\ \A k \in 1 .. Len(s) - 1 : s[k + 1].offset = s[k].offset + s[k].size
           /\ s[Len(s)].num = 8
           /\ s[Len(s)].offset = sc.whole_size - SECT8_ES_SIZE

C10_Witness ==
    /\ sc.pc = "done"
    /\ sc.result = Ok
    /\ Len(sc.sects) = 3
    /\ sc.sects[1].size # sc.sects[2].size
    /\ sc.sects[3].offset = sc.sects[1].size + sc.sects[2].size + SECT0_IS_SIZE

\* the sum of the sizes of the descriptors of s
RECURSIVE SumSizes(_)
SumSizes(s) == IF s = <<>> THEN 0 ELSE Head(s).size + SumSizes(Tail(s))

(* C11: when scan accepts a message, the sizes of its sections, the 16    *)
(* octets of section 0 and the sizes of the descriptors scan returns, add  *)
(* up to the total length the envelope declares.                           *)
C11_SizesAddUp ==
    (sc.pc = "done" /\ sc.result = Ok)
    => SECT0_IS_SIZE + SumSizes(sc.sects) = sc.whole_size

C11_Witness ==
    /\ sc.pc = "done"
    /\ sc.result = Ok
    /\ Len(sc.sects) = 3
    /\ sc.whole_size = SECT0_IS_SIZE + 2 * SECT_HEADER_SIZE + PrefixLen(1) + SECT8_ES_SIZE

(* C12: when the 16 octets of the envelope are read, scan fails with       *)
(* NotGRIB if the first four are not 'GRIB', whatever the version octet,   *)
(* and with GRIBVersionMismatch(v) if they are 'GRIB' and the version      *)
(* octet v is not 2; in both cases it has built no descriptor.             *)
C12_Envelope ==
    (f.what = "sect0" /\ f.read_ok)
    => /\ f.magic # "GRIB"
          => sc.pc = "done" /\ sc.result = NotGRIB /\ sc.sects = <<>>
       /\ (f.magic = "GRIB" /\ f.version # 2)
          => /\ sc.pc = "done"
             /\ sc.result = GRIBVersionMismatch(f.version)
             /\ sc.sects = <<>>

C12_Witness ==
    /\ f.what = "sect0"
    /\ f.read_ok
    /\ f.magic # "GRIB"
    /\ f.version # 2
    /\ sc.result = NotGRIB

(* C13: when the four octets scan reads where the declared length puts     *)
(* the end section are not '7777', scan fails with EndSectionMismatch.     *)
C13_EndSection ==
    (f.what = "sect8" /\ f.read_ok /\ f.magic # "7777")
    => /\ sc.pc = "done"
       /\ sc.result = EndSectionMismatch
       /\ sc.consumed = sc.whole_size

C13_Witness ==
    /\ f.what = "sect8"
    /\ f.read_ok
    /\ f.magic # "7777"
    /\ Len(sc.sects) = 2
    /\ sc.result = EndSectionMismatch

\* the section header that was read last leads read_body to read the
\* fixed prefix of the body
ReadsPrefix ==
    /\ f.what = "section"
    /\ f.read_ok
    /\ f.sect_num \in 1 .. 7
    /\ PrefixLen(f.sect_num) > 0
    /\ ~(overflow_checks /\ f.sect_size < SECT_HEADER_SIZE)

\* the section header that was read last leads read_body to read octets
\* after the fixed prefix, in the read_exact call numbered TailRead
ReadsTail ==
    /\ f.what = "section"
    /\ f.read_ok
    /\ f.sect_num \in 1 .. 7
    /\ f.sect_size - SECT_HEADER_SIZE > PrefixLen(f.sect_num)

TailRead == IF PrefixLen(f.sect_num) > 0 THEN 2 ELSE 1

(* C14: when a read_exact of scan fails, in the envelope, in a section     *)
(* header, in the fixed prefix of a body, in the rest of a body or in the  *)
(* end section, scan returns ReadError, and so no descriptors.             *)
C14_ReadError ==
    /\ (f.what # "none" /\ ~f.read_ok)
       => sc.pc = "done" /\ sc.result = ReadError
    /\ (ReadsPrefix /\ f.fails = 1)
       => sc.pc = "done" /\ sc.result = ReadError
    /\ (ReadsTail /\ f.fails = TailRead)
       => sc.pc = "done" /\ sc.result = ReadError

C14_Witness ==
    /\ ReadsTail
    /\ f.sect_num = 3
    /\ f.fails = TailRead
    /\ Len(sc.sects) = 1
    /\ sc.result = ReadError

(* C15: scan never aborts: whatever the input, it returns descriptors or   *)
(* an error value and does not panic.                                      *)
C15_NeverAborts == sc.result # Panic

(* C16: in the loop, scan reads a section header only when the remaining   *)
(* budget rest_size is greater than 4, and reads the end section only      *)
(* when it equals 4.                                                       *)
C16_Step ==
    /\ (sc.pc = "loop" /\ f'.what = "section") => sc.rest_size > SECT8_ES_SIZE
    /\ (sc.pc = "loop" /\ f'.what = "sect8") => sc.rest_size = SECT8_ES_SIZE

C16_HeaderOnlyAboveSentinel == [][C16_Step]_vars

(* C17: when scan returns Ok it has walked the stream to its end: it has   *)
(* returned a descriptor sequence, ended by its section 8, for every       *)
(* message of the stream, the first and those that follow it.              *)
C17_EveryMessage ==
    (sc.pc = "done" /\ sc.result = Ok)
    => Cardinality({k \in 1 .. Len(sc.sects) : sc.sects[k].num = 8})
          = 1 + f.following

(* C18: list_submessages succeeds on every reader that new builds: the     *)
(* section numbers of the descriptors a successful scan returns are in     *)
(* the order get_submessages accepts.                                      *)
C18_GrammarOrder ==
    (len > 0 /\ rs.pc = "done") => rs.result = Ok

(* C19: decode returns Ok only with as many values as the codec gave       *)
(* samples and as the num_points of section 5; when the number of          *)
(* samples differs from num_points it returns LengthMismatch.              *)
C19_Length ==
    dec.pc = "done"
    => /\ dec.result = Ok
          => dec.decoded = dec.num_points /\ dec.decoded = dec.jp2_unpacked
       /\ (dec.jp2_unpacked # None /\ dec.jp2_unpacked # dec.num_points)
          => dec.result = LengthMismatch

C19_Witness ==
    /\ dec.pc = "done"
    /\ dec.jp2_unpacked # None
    /\ dec.jp2_unpacked > dec.num_points
    /\ dec.num_points > 0
    /\ dec.result = LengthMismatch

\* sect5 or sect6 has no body or a body of another variant
BodiesMismatch == dec.sect5_body # "Section5" \/ dec.sect6_body # "Section6"

\* decode has acquired none of the codec's handles
NothingAcquired == dec.stream = "none" /\ dec.codec = "none" /\ dec.image = "none"

(* C20: decode returns InternalDataError when sect5 or sect6 lacks its     *)
(* body; otherwise BitMapIndicatorUnsupported when the bitmap indicator    *)
(* is not 255; otherwise, once the section-5 payload is read,              *)
(* OriginalFieldValueTypeNotSupported when the value type is not 0; and    *)
(* it has acquired no codec handle when it returns one of them.            *)
C20_RejectOrder ==
    dec.pc = "done"
    => /\ BodiesMismatch
          => dec.result = InternalDataError /\ NothingAcquired
       /\ (~BodiesMismatch /\ dec.bitmap_indicator # 255)
          => dec.result = BitMapIndicatorUnsupported /\ NothingAcquired
       /\ (~BodiesMismatch /\ dec.bitmap_indicator = 255 /\ dec.value_type # 0)
          => /\ dec.result \in {OriginalFieldValueTypeNotSupported, ReadError}
             /\ NothingAcquired

C20_Witness ==
    /\ dec.pc = "done"
    /\ dec.sect5_body = "None"
    /\ dec.sect6_body = "Section6"
    /\ dec.bitmap_indicator # 255
    /\ dec.value_type # 0
    /\ dec.result = InternalDataError

\* decode_jp2 has returned to decode, or was never called
Jp2Returned == dec.pc \in {"unpack", "length", "done"}

\* the three handles of the codec
Handles == <<dec.stream, dec.codec, dec.image>>

(* C21: when decode_jp2 fails, the failure of the codec's creation or of   *)
(* its setup gives DecoderSetupError, of the header read                   *)
(* MainHeaderReadError, of the body decode BodyReadError; the calls come   *)
(* in that order: the setup after the codec exists and before the image,   *)
(* the header read before the body decode, all before the components are   *)
(* looked at.                                                              *)
C21_StageErrors ==
    dec.pc = "done"
    => /\ dec.failed \in {"codec", "setup"}
          => dec.result = Jpeg2000CodeStreamDecodeError(DecoderSetupError)
       /\ dec.failed = "header"
          => dec.result = Jpeg2000CodeStreamDecodeError(MainHeaderReadError)
       /\ dec.failed = "body"
          => dec.result = Jpeg2000CodeStreamDecodeError(BodyReadError)
       /\ dec.failed = "codec" => dec.codec = "none" /\ dec.image = "none"
       /\ dec.failed = "setup" => dec.codec # "none" /\ dec.image = "none"
       /\ dec.failed \in {"header", "body"}
          => dec.codec # "none" /\ dec.image # "none" /\ dec.numcomps = None

C21_Witness ==
    /\ dec.pc = "done"
    /\ dec.failed = "body"
    /\ dec.result = Jpeg2000CodeStreamDecodeError(BodyReadError)

(* C22: when the image the codec decoded does not have exactly one         *)
(* component, decode fails with Jpeg2000CodeStreamDecodeError of           *)
(* NotSupported.                                                           *)
C22_OneComponent ==
    (dec.pc = "done" /\ dec.numcomps # None /\ dec.numcomps # 1)
    => dec.result = Jpeg2000CodeStreamDecodeError(NotSupported)

C22_Witness ==
    /\ dec.pc = "done"
    /\ dec.numcomps = 2
    /\ dec.result = Jpeg2000CodeStreamDecodeError(NotSupported)

(* C23: once decode_jp2 has returned, no handle is still held: on every    *)
(* exit path each handle that was acquired has been released, and none is  *)
(* ever released twice; the samples were copied while the image was held.  *)
C23_Released ==
    /\ \A k \in 1 .. 3 : Handles[k] # "released twice"
    /\ Jp2Returned => \A k \in 1 .. 3 : Handles[k] # "held"
    /\ (dec.pc = "done" /\ dec.failed \in {"codec", "setup"})
       => dec.stream = "released"
    /\ (dec.pc = "done" /\ dec.failed = "setup") => dec.codec = "released"
    /\ (Jp2Returned /\ (dec.failed \in {"header", "body"} \/ dec.numcomps # None))
       => \A k \in 1 .. 3 : Handles[k] = "released"
    /\ dec.jp2_unpacked # None => dec.copied_while = "held"

C23_Witness ==
    /\ dec.pc = "done"
    /\ dec.result = Jpeg2000CodeStreamDecodeError(NotSupported)
    /\ Handles = <<"released", "released", "released">>

\* the sign-magnitude reading of a 16-bit field
SignMagnitude(field) ==
    (IF field \div 2 ^ 15 = 1 THEN -1 ELSE 1) * (field % 2 ^ 15)

\* the two's-complement reading of a 16-bit field
TwosComplement(field) == IF field >= 2 ^ 15 THEN field - 2 ^ 16 ELSE field

\* the two scale-factor fields with what decode made of them
ScaleFactors == {<<dec.exp_field, dec.exp>>, <<dec.dig_field, dec.dig>>}

(* C24 as claimed: the binary and decimal scale factors are the            *)
(* sign-magnitude readings of their fields, 0x8001 gives -1, 0x0000 and    *)
(* 0x8000 give 0, and the result never equals the two's-complement         *)
(* reading of a field with the high bit set.                               *)
C24_NeverTwosComplement ==
    dec.exp_field # None
    => \A fd \in ScaleFactors :
          /\ fd[2] = SignMagnitude(fd[1])
          /\ fd[1] = 32769 => fd[2] = -1
          /\ fd[1] \in {0, 32768} => fd[2] = 0
          /\ fd[1] >= 32768 => fd[2] # TwosComplement(fd[1])

(* C24 as amended: the same, but the result differs from the               *)
(* two's-complement reading of a field with the high bit set for every     *)
(* field except 0xC000, where both readings are -16384.                    *)
C24_SignMagnitude ==
    dec.exp_field # None
    => \A fd \in ScaleFactors :
          /\ fd[2] = SignMagnitude(fd[1])
          /\ fd[1] = 32769 => fd[2] = -1
          /\ fd[1] \in {0, 32768} => fd[2] = 0
          /\ (fd[1] >= 32768 /\ fd[1] # 49152) => fd[2] # TwosComplement(fd[1])
          /\ fd[1] = 49152 => fd[2] = -16384 /\ fd[2] = TwosComplement(fd[1])

C24_Witness ==
    /\ dec.exp_field = 32769
    /\ dec.exp = -1
    /\ dec.dig_field = 49152
    /\ dec.dig = -16384

\* the resolver was given the whole sequence of the sample and has returned
SampleResolved == rs.pc = "done" /\ len = Len(read_normal)

\* the index after which the group of the k-th submessage begins
GroupFloor(k) == IF k = 1 THEN 0 ELSE rs.starts[k - 1].section7

\* the k-th submessage has the section at index i from its own group
Explicit(k, i) == i # None /\ i > GroupFloor(k) /\ i < rs.starts[k].section4

\* the k-th submessage has the section at index i from an earlier group
Inherited(k, i) == i # None /\ i < GroupFloor(k)

(* C25: on the descriptors of the sample file of read_normal the resolver  *)
(* returns 7 submessages; the first has a section 2 from its own group and *)
(* the others the section 2 of an earlier group.                           *)
C25_SampleSect2 ==
    SampleResolved
    => /\ rs.result = Ok
       /\ Len(rs.starts) = 7
       /\ Explicit(1, rs.starts[1].section2)
       /\ \A k \in 2 .. 7 : Inherited(k, rs.starts[k].section2)

(* C25 as amended: on the descriptors of the sample file of read_normal    *)
(* the resolver returns 7 submessages, none of which has a section 2; the  *)
(* first has a section 3 from its own group and the others inherit it;     *)
(* sections 4..7 of the k-th are the four descriptors from 2 + 4(k-1) on.  *)
C25_SampleSect3 ==
    SampleResolved
    => /\ rs.result = Ok
       /\ Len(rs.starts) = 7
       /\ \A k \in 1 .. 7 :
             /\ rs.starts[k].section2 = None
             /\ rs.starts[k].section3 = 1
             /\ rs.starts[k] = SubMessage(None, 1, 4 * k - 2, 4 * k - 1,
                                          4 * k, 4 * k + 1)
       /\ Explicit(1, rs.starts[1].section3)
       /\ \A k \in 2 .. 7 : Inherited(k, rs.starts[k].section3)

C25_Witness ==
    /\ SampleResolved
    /\ sects = read_normal
    /\ rs.iter = 31
    /\ Len(rs.starts) = 7
    /\ rs.starts[7].section7 = 29

(* C26: once the resolver has taken a section 8 at a group start i that    *)
(* is not the last index of the slice, it has returned                     *)
(* GRIB2WrongIteration(i) if a section 3 stands before i and               *)
(* NoGridDefinition(i) if none does.                                       *)
C26_Sect8NotLast ==
    LET i == rs.iter - 1
    IN  (GroupStart(sects, i) /\ NumAt(sects, i) = 8 /\ i < len - 1)
        => /\ rs.pc = "done"
           /\ MostRecent(sects, 3, i) # None
                 => rs.result = GRIB2WrongIteration(i)
           /\ MostRecent(sects, 3, i) = None
                 => rs.result = NoGridDefinition(i)

C26_Witness ==
    /\ rs.pc = "done"
    /\ Nums(sects) = <<1, 8>>
    /\ len = 3
    /\ rs.result = NoGridDefinition(1)

\* the descriptors of s but the last are sections 1..7 with the body of
\* their number, the last is the section 8 of 4 octets without a body
WellShaped(s) ==
    /\ Len(s) >= 1
    /\ s[Len(s)].num = 8
    /\ s[Len(s)].size = SECT8_ES_SIZE
    /\ s[Len(s)].body = "None"
    /\ \A k \in 1 .. Len(s) - 1 :
          /\ s[k].num \in 1 .. 7
          /\ s[k].body = SectionBody(s[k].num)

\* the last step of scan read a section header with the number num
HeaderRead(num) == f.what = "section" /\ f.read_ok /\ f.sect_num = num

(* C27: the descriptors a successful scan returns are sections 1..7 with   *)
(* the body of their number, closed by one section 8 of size 4 without a   *)
(* body; once scan has read a section header whose number is outside 1..7, *)
(* it has returned UnknownSectionNumber(number).                           *)
C27_Numbers ==
    /\ (sc.pc = "done" /\ sc.result = Ok) => WellShaped(sc.sects)
    /\ \A num \in SectNums \ (1 .. 7) :
          HeaderRead(num)
          => (sc.pc = "done" /\ sc.result = UnknownSectionNumber(num))

\* a step of scan leaves the reader where it was or further on
ReadsForward == sc'.consumed >= sc.consumed

(* C28: when scan accepts a message it has taken from the reader as many   *)
(* octets as the envelope declares: 16 of section 0, the size of every     *)
(* section 1..7 and the 4 of section 8; no step of scan moves the reader   *)
(* backwards, so no octet after the message is read on the way.            *)
C28_Consumed ==
    /\ [](  (sc.pc = "done" /\ sc.result = Ok)
            => /\ sc.consumed = sc.whole_size
               /\ sc.consumed = SECT0_IS_SIZE + SumSizes(sc.sects))
    /\ [][ReadsForward]_vars

C28_Witness ==
    /\ sc.pc = "done"
    /\ sc.result = Ok
    /\ Nums(sc.sects) = <<1, 7, 8>>
    /\ sc.sects[2].size = SECT_HEADER_SIZE + 1
    /\ sc.consumed = MaxWhole

\* the submessages of starts that have the descriptor at index i as their
\* section 4, 5, 6 or 7
ReferredBy(starts, i) ==
    {k \in 1 .. Len(starts) :
        i \in {starts[k].section4, starts[k].section5,
               starts[k].section6, starts[k].section7}}

(* C29: when get_submessages returns Ok, it returns as many submessages as *)
(* the slice has sections 7, every descriptor numbered 4, 5, 6 or 7 is a   *)
(* section of exactly one submessage, and the submessages stand in the     *)
(* order of their sections 4 in the slice.                                 *)
C29_OnePerField ==
    (rs.pc = "done" /\ rs.result = Ok)
    => /\ Len(rs.starts) =
             Cardinality({i \in 0 .. Len(sects) - 1 : NumAt(sects, i) = 7})
       /\ \A i \in 0 .. Len(sects) - 1 :
             NumAt(sects, i) \in 4 .. 7
             => Cardinality(ReferredBy(rs.starts, i)) = 1
       /\ \A k \in 1 .. Len(rs.starts) - 1 :
             rs.starts[k].section4 < rs.starts[k + 1].section4

C29_Witness ==
    /\ rs.pc = "done"
    /\ rs.result = Ok
    /\ Nums(sects) = <<1, 2, 3, 4, 5, 6, 7, 4, 5, 6, 7, 8>>
    /\ Len(rs.starts) = 2
    /\ rs.starts[2].section4 = 7

\* a step of the resolver does not clear the section-3 default
KeepsSect3Default == rs.sect3_default # None => rs'.sect3_default # None

(* C30: the resolver returns NoGridDefinition(i) only with i = 1; once a   *)
(* submessage has been emitted the section-3 default is set, and no step   *)
(* clears it, so the section 4 or 8 at a later group start does not yield  *)
(* NoGridDefinition.                                                       *)
C30_NoGridOnlyAtOne ==
    /\ [](  /\ rs.result.kind = "NoGridDefinition" => rs.result.idx = 1
            /\ Len(rs.starts) >= 1 => rs.sect3_default # None
            /\ LET i == rs.iter - 1
               IN  (i > 1 /\ GroupStart(sects, i) /\ NumAt(sects, i) \in {4, 8})
                   => rs.result.kind # "NoGridDefinition")
    /\ [][KeepsSect3Default]_vars

C30_Witness ==
    /\ rs.pc = "check"
    /\ Nums(sects) = <<1, 3, 4, 5, 6, 7, 4>>
    /\ Len(rs.starts) = 1
    /\ rs.sect3_default = 1
    /\ rs.result = Pending

=============================================================================
